---------------------------- MODULE Spec2Model ----------------------------
(***************************************************************************)
(* A model of external_services.py: the ISBN normaliser limpiar_isbn, the  *)
(* Google Books resolver buscar_en_google_books with its nested            *)
(* _parse_volume, and the orchestrator identificar_libro_por_imagen.       *)
(*                                                                         *)
(* Python strings are sequences of one-character strings, so that          *)
(* upper-casing, the regular-expression filter, slicing and strip() are    *)
(* computed character by character.  A JSON value is a record              *)
(* [t, s, n]: t is "str", "num" or "null" (null also stands for an absent  *)
(* key, which .get() maps to its default).                                 *)
(***************************************************************************)
EXTENDS Integers, Sequences, FiniteSets, TLC

VARIABLES
    pc,        \* position of the running call
    entry,     \* which function the caller invoked
    client,    \* module-level `client` is not None
    arg,       \* the argument of limpiar_isbn / _parse_volume under test
    isbn,      \* buscar_en_google_books parameter isbn (JSON value)
    titulo,    \* parameter titulo (string, "" for None)
    autor,     \* parameter autor (string, "" for None)
    isbn_clean,\* local isbn_clean of buscar_en_google_books
    gb,        \* value returned by buscar_en_google_books / _parse_volume
    ia,        \* the locals isbn_ia .. editorial_ia of the orchestrator
    calls,     \* the outbound calls issued so far, in order
    exc,       \* the exception in flight ("" when none)
    ret        \* the value returned to the caller

vars ==
    <<pc, entry, client, arg, isbn, titulo, autor, isbn_clean, gb, ia, calls,
      exc, ret>>

----------------------------------------------------------------------------
(* Bounds of the explored inputs *)

MaxPad == 13
MaxAffix == 1
MaxTail == 2
MaxIds == 3

(* Program constants *)

ISBN10_LEN == 10
ISBN13_LEN == 13
YEAR_LEN == 4

----------------------------------------------------------------------------
(* Strings *)

E == << >>

Digit == {"0", "1", "2", "3", "4", "5", "6", "7", "8", "9"}

DigitVal(c) ==
    CASE c = "0" -> 0 [] c = "1" -> 1 [] c = "2" -> 2 [] c = "3" -> 3
      [] c = "4" -> 4 [] c = "5" -> 5 [] c = "6" -> 6 [] c = "7" -> 7
      [] c = "8" -> 8 [] c = "9" -> 9

\* str.upper() on one character (the letters among the explored inputs)
UpperChar(c) ==
    CASE c = "x" -> "X"
      [] c = "a" -> "A"
      [] c = "b" -> "B"
      [] OTHER -> c

\* str.upper()
Upper(s) == [i \in 1..Len(s) |-> UpperChar(s[i])]

\* the characters the pattern [^0-9X] does not match
IsbnChar(c) == c \in Digit \cup {"X"}

\* re.sub(r"[^0-9X]", "", s)
ReSubNonIsbn(s) == SelectSeq(s, IsbnChar)

RECURSIVE LStrip(_)
LStrip(s) == IF s # E /\ Head(s) = " " THEN LStrip(Tail(s)) ELSE s

RECURSIVE RStrip(_)
RStrip(s) ==
    IF s # E /\ s[Len(s)] = " " THEN RStrip(SubSeq(s, 1, Len(s) - 1)) ELSE s

\* str.strip()
Strip(s) == RStrip(LStrip(s))

\* JSON values
Null == [t |-> "null", s |-> E, n |-> 0]
Str(s) == [t |-> "str", s |-> s, n |-> 0]
Num(n) == [t |-> "num", s |-> E, n |-> n]

\* Python truthiness of a JSON value
Truthy(v) ==
    CASE v.t = "str" -> v.s # E
      [] v.t = "num" -> v.n # 0
      [] OTHER -> FALSE

----------------------------------------------------------------------------
(* limpiar_isbn *)

\* isbn.upper() raises AttributeError when isbn is truthy and not a string
limpiar_isbn_raises(v) == Truthy(v) /\ v.t # "str"

\* limpiar_isbn without line 17 (no upper-casing)
limpiar_isbn_noupper(v) ==
    IF ~Truthy(v) THEN E
    ELSE LET c == ReSubNonIsbn(v.s)
         IN  IF Len(c) \in {ISBN10_LEN, ISBN13_LEN} THEN c ELSE E

limpiar_isbn(v) ==
    IF ~Truthy(v) THEN E
    ELSE LET c == ReSubNonIsbn(Upper(v.s))
         IN  IF Len(c) \in {ISBN10_LEN, ISBN13_LEN} THEN c ELSE E

----------------------------------------------------------------------------
(* _parse_volume *)

\* a book record: the dict _parse_volume builds, or None (some = FALSE)
NoneGb ==
    [some |-> FALSE, isbn |-> E, titulo |-> E, autor |-> E, anio |-> 0,
     editorial |-> E]

\* the scan were it to keep the first ISBN_10 value it sees
RECURSIVE ScanIds_keepfirst(_, _, _, _)
ScanIds_keepfirst(ids, i, isbn_res, seen10) ==
    IF i > Len(ids) THEN isbn_res
    ELSE LET t == ids[i].type
             v == ids[i].identifier
         IN  IF t \in {"ISBN_13", "ISBN_10"} /\ v # E
             THEN IF t = "ISBN_13" THEN v
                  ELSE IF seen10 THEN ScanIds_keepfirst(ids, i + 1, isbn_res, TRUE)
                       ELSE ScanIds_keepfirst(ids, i + 1, v, TRUE)
             ELSE ScanIds_keepfirst(ids, i + 1, isbn_res, seen10)

\* the scan without the break of line 43
RECURSIVE ScanIds_nobreak(_, _, _)
ScanIds_nobreak(ids, i, isbn_res) ==
    IF i > Len(ids) THEN isbn_res
    ELSE LET t == ids[i].type
             v == ids[i].identifier
         IN  IF t \in {"ISBN_13", "ISBN_10"} /\ v # E
             THEN ScanIds_nobreak(ids, i + 1, v)
             ELSE ScanIds_nobreak(ids, i + 1, isbn_res)

\* the for loop over info.get("industryIdentifiers", []), from entry i on
RECURSIVE ScanIds(_, _, _)
ScanIds(ids, i, isbn_res) ==
    IF i > Len(ids) THEN isbn_res
    ELSE LET t == ids[i].type
             v == ids[i].identifier
         IN  IF t \in {"ISBN_13", "ISBN_10"} /\ v # E
             THEN IF t = "ISBN_13" THEN v ELSE ScanIds(ids, i + 1, v)
             ELSE ScanIds(ids, i + 1, isbn_res)

\* pub_date[:4]
Prefix(s, n) == SubSeq(s, 1, IF Len(s) < n THEN Len(s) ELSE n)

\* str.isdigit() (on the ASCII digits the explored dates hold)
IsDigitStr(s) == s # E /\ \A i \in 1..Len(s) : s[i] \in Digit

\* int() of a string of decimal digits
RECURSIVE IntOf(_)
IntOf(s) ==
    IF s = E THEN 0
    ELSE 10 * IntOf(SubSeq(s, 1, Len(s) - 1)) + DigitVal(s[Len(s)])

\* anio from info.get("publishedDate", "")
ParseAnio(pub_date) ==
    IF Len(pub_date) >= YEAR_LEN /\ IsDigitStr(Prefix(pub_date, YEAR_LEN))
    THEN IntOf(Prefix(pub_date, YEAR_LEN))
    ELSE 0

\* ", ".join(authors)
RECURSIVE JoinAuthors(_)
JoinAuthors(authors) ==
    IF authors = << >> THEN E
    ELSE IF Len(authors) = 1 THEN authors[1]
    ELSE authors[1] \o <<",", " ">> \o JoinAuthors(Tail(authors))

\* _parse_volume over the scan without the break
_parse_volume_scanall(vol, isbn_fallback) ==
    [some |-> TRUE,
     isbn |-> ScanIds_nobreak(vol.industryIdentifiers, 1, isbn_fallback),
     titulo |-> vol.title,
     autor |-> JoinAuthors(vol.authors),
     anio |-> ParseAnio(vol.publishedDate),
     editorial |-> vol.publisher]

\* _parse_volume over the scan that keeps the first ISBN_10 value
_parse_volume_keepfirst(vol, isbn_fallback) ==
    [some |-> TRUE,
     isbn |-> ScanIds_keepfirst(vol.industryIdentifiers, 1, isbn_fallback, FALSE),
     titulo |-> vol.title,
     autor |-> JoinAuthors(vol.authors),
     anio |-> ParseAnio(vol.publishedDate),
     editorial |-> vol.publisher]

\* vol is the item's volumeInfo, every absent key at its .get() default
_parse_volume(vol, isbn_fallback) ==
    [some |-> TRUE,
     isbn |-> ScanIds(vol.industryIdentifiers, 1, isbn_fallback),
     titulo |-> vol.title,
     autor |-> JoinAuthors(vol.authors),
     anio |-> ParseAnio(vol.publishedDate),
     editorial |-> vol.publisher]

----------------------------------------------------------------------------
(* buscar_en_google_books *)

\* gb["titulo"] or gb["autor"]
\* the test of lines 71 and 94 left out
Accepts_always(g) == TRUE

Accepts(g) == g.titulo # E \/ g.autor # E

\* What one requests.get() and the reading of its response come to:
\*   "raise"   requests.get raises (timeout, connection error)
\*   "status"  r.status_code != 200
\*   "badjson" r.json() raises, or the body is no JSON object
\*   "ok"      a JSON object whose "items" is `items` (<< >> when absent)
Resp(kind, items) == [kind |-> kind, items |-> items]

NoResp == Resp("none", << >>)

Step(next, called, clean, g, e) ==
    [next |-> next, called |-> called, clean |-> clean, gb |-> g, exc |-> e]

\* the first tier without the return of line 72
IsbnTierStep_noshortcircuit(isbnv, resp) ==
    IF ~Truthy(isbnv) THEN Step("text_tier", FALSE, E, NoneGb, "")
    ELSE IF limpiar_isbn_raises(isbnv)
    THEN Step("raise", FALSE, E, NoneGb, "AttributeError")
    ELSE LET clean == limpiar_isbn(isbnv)
         IN  IF clean = E THEN Step("text_tier", FALSE, E, NoneGb, "")
             ELSE CASE resp.kind = "raise" ->
                         Step("raise", TRUE, clean, NoneGb, "RequestException")
                    [] resp.kind = "badjson" ->
                         Step("raise", TRUE, clean, NoneGb, "JSONDecodeError")
                    [] OTHER -> Step("text_tier", TRUE, clean, NoneGb, "")

\* "# 1) Intento con ISBN": the outcome of the first tier when the catalog
\* answers resp
IsbnTierStep(isbnv, resp) ==
    IF ~Truthy(isbnv) THEN Step("text_tier", FALSE, E, NoneGb, "")
    ELSE IF limpiar_isbn_raises(isbnv)
    THEN Step("raise", FALSE, E, NoneGb, "AttributeError")
    ELSE LET clean == limpiar_isbn(isbnv)
         IN  IF clean = E THEN Step("text_tier", FALSE, E, NoneGb, "")
             ELSE CASE resp.kind = "raise" ->
                         Step("raise", TRUE, clean, NoneGb, "RequestException")
                    [] resp.kind = "badjson" ->
                         Step("raise", TRUE, clean, NoneGb, "JSONDecodeError")
                    [] resp.kind = "ok" /\ resp.items # << >> ->
                         LET g == _parse_volume(resp.items[1], clean)
                         IN  IF Accepts(g) THEN Step("return", TRUE, clean, g, "")
                             ELSE Step("text_tier", TRUE, clean, NoneGb, "")
                    [] OTHER -> Step("text_tier", TRUE, clean, NoneGb, "")

\* the second tier without the return of lines 80-81
TextTierStep_alwaysquery(isbnv, tit, aut, resp) ==
    CASE resp.kind = "raise" ->
             Step("raise", TRUE, E, NoneGb, "RequestException")
      [] resp.kind = "status" -> Step("return", TRUE, E, NoneGb, "")
      [] resp.kind = "badjson" ->
             Step("raise", TRUE, E, NoneGb, "JSONDecodeError")
      [] resp.kind = "ok" /\ resp.items # << >> ->
             LET g == _parse_volume(resp.items[1], limpiar_isbn(isbnv))
             IN  IF Accepts(g) THEN Step("return", TRUE, E, g, "")
                 ELSE Step("return", TRUE, E, NoneGb, "")
      [] OTHER -> Step("return", TRUE, E, NoneGb, "")

\* "# 2) Intento con titulo/autor": the outcome of the second tier
TextTierStep(isbnv, tit, aut, resp) ==
    IF tit = E /\ aut = E THEN Step("return", FALSE, E, NoneGb, "")
    ELSE CASE resp.kind = "raise" ->
                  Step("raise", TRUE, E, NoneGb, "RequestException")
           [] resp.kind = "status" -> Step("return", TRUE, E, NoneGb, "")
           [] resp.kind = "badjson" ->
                  Step("raise", TRUE, E, NoneGb, "JSONDecodeError")
           [] resp.kind = "ok" /\ resp.items # << >> ->
                  LET g == _parse_volume(resp.items[1], limpiar_isbn(isbnv))
                  IN  IF Accepts(g) THEN Step("return", TRUE, E, g, "")
                      ELSE Step("return", TRUE, E, NoneGb, "")
           [] OTHER -> Step("return", TRUE, E, NoneGb, "")

----------------------------------------------------------------------------
(* identificar_libro_por_imagen *)

NoError == [some |-> FALSE, msg |-> ""]
Error(m) == [some |-> TRUE, msg |-> m]

NoIa ==
    [some |-> FALSE, isbn |-> E, titulo |-> E, autor |-> E, anio |-> 0,
     editorial |-> E]

\* (v or "").strip() raises AttributeError when v is truthy and not a string
StripRaises(v) == Truthy(v) /\ v.t # "str"

\* (v or "").strip()
OrEmptyStrip(v) == IF Truthy(v) THEN Strip(v.s) ELSE E

\* lines 148-152 raise on a field of the wrong type
ParseIaRaises(p) ==
    \/ limpiar_isbn_raises(p.isbn)
    \/ StripRaises(p.titulo)
    \/ StripRaises(p.autor)
    \/ StripRaises(p.editorial)

\* lines 148-152: isbn_ia, titulo_ia, autor_ia, anio_ia, editorial_ia
ParseIa(p) ==
    [some |-> TRUE,
     isbn |-> limpiar_isbn(p.isbn),
     titulo |-> OrEmptyStrip(p.titulo),
     autor |-> OrEmptyStrip(p.autor),
     anio |-> IF Truthy(p.anio) THEN p.anio.n ELSE 0,
     editorial |-> OrEmptyStrip(p.editorial)]

\* a or b on strings
OrStr(a, b) == IF a # E THEN a ELSE b

\* a or b or 0 on numbers
OrNum(a, b) == IF a # 0 THEN a ELSE b

\* the merge with the two sources swapped
Combinar_iafirst(g, i) ==
    IF g.some
    THEN [isbn |-> OrStr(i.isbn, g.isbn),
          titulo |-> OrStr(i.titulo, g.titulo),
          autor |-> OrStr(i.autor, g.autor),
          anio |-> OrNum(i.anio, g.anio),
          editorial |-> OrStr(i.editorial, g.editorial)]
    ELSE [isbn |-> i.isbn, titulo |-> i.titulo, autor |-> i.autor,
          anio |-> i.anio, editorial |-> i.editorial]

\* lines 161-176: combinado
Combinar(g, i) ==
    IF g.some
    THEN [isbn |-> OrStr(g.isbn, i.isbn),
          titulo |-> OrStr(g.titulo, i.titulo),
          autor |-> OrStr(g.autor, i.autor),
          anio |-> OrNum(g.anio, i.anio),
          editorial |-> OrStr(g.editorial, i.editorial)]
    ELSE [isbn |-> i.isbn, titulo |-> i.titulo, autor |-> i.autor,
          anio |-> i.anio, editorial |-> i.editorial]

NoRec == [isbn |-> E, titulo |-> E, autor |-> E, anio |-> 0, editorial |-> E]

\* the pair the orchestrator returns: (combinado | None, error | None)
Ret(hasRec, rec, err) == [some |-> hasRec, rec |-> rec, error |-> err]

NoRet == [some |-> FALSE, rec |-> NoRec, error |-> NoError]

----------------------------------------------------------------------------
(* The explored inputs *)

Isbn13Raw == <<"9", "7", "8", "-", "0", "4", "4", "1", "0", "1", "3", "5", "9", "3">>
Isbn10Raw == <<"0", "8", "0", "4", "4", "2", "9", "5", "7", "x">>
IsbnBad == <<"a", "b", "1">>

Cat13 == <<"9", "7", "8", "0", "4", "4", "1", "0", "1", "3", "5", "9", "3">>
Cat10 == <<"0", "4", "4", "1", "0", "1", "3", "5", "9", "7">>
CatRaw == <<"9", "7", "8", "-", "0">>

Date1965 == <<"1", "9", "6", "5", "-", "0", "6", "-", "0", "1">>
DateUnknown == <<"u", "n", "k", "n", "o", "w", "n">>
DateShort == <<"1", "9", "6">>

Id(t, v) == [type |-> t, identifier |-> v]

Vol(ids, date, authors, title, publisher) ==
    [industryIdentifiers |-> ids, publishedDate |-> date, authors |-> authors,
     title |-> title, publisher |-> publisher]

VolFull ==
    Vol(<<Id("ISBN_10", Cat10), Id("ISBN_13", Cat13)>>, Date1965,
        <<<<"F">>, <<"H">>>>, <<"D">>, <<"A">>)
VolBare == Vol(<< >>, E, << >>, E, E)
VolNoName == Vol(<<Id("ISBN_13", Cat13)>>, Date1965, << >>, E, <<"A">>)
VolRawId == Vol(<<Id("ISBN_13", CatRaw)>>, DateUnknown, << >>, <<"D">>, E)
VolAuthorOnly == Vol(<<Id("OTHER", <<"O">>)>>, DateShort, <<<<"F">>>>, E, E)

Volumes == {VolFull, VolBare, VolNoName, VolRawId, VolAuthorOnly}

Responses ==
    {Resp("raise", << >>), Resp("status", << >>), Resp("badjson", << >>),
     Resp("ok", << >>), Resp("ok", <<VolNoName, VolFull>>)}
        \cup {Resp("ok", <<v>>) : v \in Volumes}

\* what client.chat.completions.create() and json.loads() come to
Payload(i, t, a, y, e) ==
    [isbn |-> i, titulo |-> t, autor |-> a, anio |-> y, editorial |-> e]

NoPayload == Payload(Null, Null, Null, Null, Null)

Vision(kind, p) == [kind |-> kind, p |-> p]

VisionOutcomes ==
    {Vision("raise", NoPayload), Vision("badjson", NoPayload),
     Vision("nondict", NoPayload)}
        \cup {Vision("dict", Payload(i, t, a, y, e)) :
                i \in {Null, Str(Isbn13Raw), Str(Isbn10Raw), Str(IsbnBad), Num(9)},
                t \in {Null, Str(<<" ", "D", " ">>), Str(<<" ">>), Num(1)},
                a \in {Null, Str(<<"G">>)},
                y \in {Null, Num(1999)},
                e \in {Null, Str(<<"P">>)}}

\* every sequence over S of length at most n
RECURSIVE SeqsUpTo(_, _)
SeqsUpTo(S, n) ==
    IF n = 0 THEN {<< >>}
    ELSE LET shorter == SeqsUpTo(S, n - 1)
         IN  shorter \cup {Append(q, x) : q \in shorter, x \in S}

\* k digits
Pad(k) == [i \in 1..k |-> IF i % 2 = 0 THEN "0" ELSE "9"]

NormAlphabet == {"5", "x", "X", "-", "a", " "}

NormInputs ==
    {Null, Num(0), Num(978)}
        \cup {Str(a \o Pad(k) \o b \o Pad(j)) :
                a \in SeqsUpTo(NormAlphabet, MaxAffix), k \in 0..MaxPad,
                b \in SeqsUpTo(NormAlphabet, MaxAffix), j \in 0..MaxTail}

IdEntries ==
    {Id(t, v) : t \in {"ISBN_13", "ISBN_10", "OTHER"},
                v \in {E, <<"A">>, <<"B">>}}

ParseVols ==
    {Vol(ids, E, << >>, <<"D">>, E) : ids \in SeqsUpTo(IdEntries, MaxIds)}
        \cup {Vol(<< >>, d, a, E, <<"A">>) :
                d \in {E, Date1965, DateUnknown, DateShort},
                a \in {<< >>, <<E>>, <<<<"F">>>>, <<<<"F">>, <<"H">>>>}}

ParseArgs == {[vol |-> v, isbn_fallback |-> f] : v \in ParseVols, f \in {E, Cat10}}

NoArg == Null

ResolveIsbns ==
    {Null, Str(E), Str(Isbn13Raw), Str(Isbn10Raw), Str(IsbnBad), Num(9)}

----------------------------------------------------------------------------
(* The calls *)

Call(kind, key, tit, aut, resp) ==
    [kind |-> kind, isbn |-> key, titulo |-> tit, autor |-> aut, resp |-> resp]

Identificar == "identificar_libro_por_imagen"
Buscar == "buscar_en_google_books"

\* where control goes when a tier of the resolver ends
After(next) ==
    CASE next = "text_tier" -> "text_tier"
      [] next = "return" -> IF entry = Identificar THEN "merge" ELSE "done"
      [] next = "raise" -> IF entry = Identificar THEN "catch" ELSE "raised"

Idle(e) ==
    /\ entry = e
    /\ client \in BOOLEAN
    /\ arg = NoArg
    /\ isbn = Null
    /\ titulo = E
    /\ autor = E
    /\ isbn_clean = E
    /\ gb = NoneGb
    /\ ia = NoIa
    /\ calls = << >>
    /\ exc = ""
    /\ ret = NoRet

\* limpiar_isbn(arg)
LimpiarIsbn ==
    /\ pc = "call"
    /\ entry = "limpiar_isbn"
    /\ IF limpiar_isbn_raises(arg)
       THEN pc' = "raised" /\ exc' = "AttributeError" /\ UNCHANGED isbn_clean
       ELSE pc' = "done" /\ isbn_clean' = limpiar_isbn(arg) /\ UNCHANGED exc
    /\ UNCHANGED <<entry, client, arg, isbn, titulo, autor, gb, ia, calls, ret>>

\* _parse_volume(arg.vol, arg.isbn_fallback)
ParseVolume ==
    /\ pc = "call"
    /\ entry = "_parse_volume"
    /\ gb' = _parse_volume(arg.vol, arg.isbn_fallback)
    /\ pc' = "done"
    /\ UNCHANGED <<entry, client, arg, isbn, titulo, autor, isbn_clean, ia,
                   calls, exc, ret>>

\* buscar_en_google_books, lines 61-72
IsbnTier ==
    /\ pc = "isbn_tier"
    /\ \E resp \in Responses :
         LET st == IsbnTierStep(isbn, resp)
         IN  /\ pc' = After(st.next)
             /\ isbn_clean' = st.clean
             /\ gb' = st.gb
             /\ exc' = st.exc
             /\ calls' = IF st.called
                         THEN Append(calls, Call("isbn", st.clean, E, E, resp))
                         ELSE calls
    /\ UNCHANGED <<entry, client, arg, isbn, titulo, autor, ia, ret>>

\* buscar_en_google_books, lines 74-97
TextTier ==
    /\ pc = "text_tier"
    /\ \E resp \in Responses :
         LET st == TextTierStep(isbn, titulo, autor, resp)
         IN  /\ pc' = After(st.next)
             /\ gb' = st.gb
             /\ exc' = st.exc
             /\ calls' = IF st.called
                         THEN Append(calls, Call("text", E, titulo, autor, resp))
                         ELSE calls
    /\ UNCHANGED <<entry, client, arg, isbn, titulo, autor, isbn_clean, ia, ret>>

\* identificar_libro_por_imagen, lines 107-108
NoClient ==
    /\ pc = "start"
    /\ ~client
    /\ ret' = Ret(FALSE, NoRec, Error("OPENAI_API_KEY no configurada en el entorno."))
    /\ pc' = "done"
    /\ UNCHANGED <<entry, client, arg, isbn, titulo, autor, isbn_clean, gb, ia,
                   calls, exc>>

\* lines 125-152 on the outcome o of the vision call
VisionStep(o) ==
    CASE o.kind = "raise" -> [next |-> "catch", ia |-> NoIa, exc |-> "VisionError"]
      [] o.kind = "badjson" -> [next |-> "catch", ia |-> NoIa, exc |-> "JSONDecodeError"]
      [] o.kind = "nondict" -> [next |-> "catch", ia |-> NoIa, exc |-> "AttributeError"]
      [] OTHER ->
           IF ParseIaRaises(o.p)
           THEN [next |-> "catch", ia |-> NoIa, exc |-> "AttributeError"]
           ELSE [next |-> "isbn_tier", ia |-> ParseIa(o.p), exc |-> ""]

\* identificar_libro_por_imagen, lines 110-159: the vision call, the parse of
\* its payload and the call of buscar_en_google_books
VisionExtract ==
    /\ pc = "start"
    /\ client
    /\ \E o \in VisionOutcomes :
         LET st == VisionStep(o)
         IN  /\ pc' = st.next
             /\ ia' = st.ia
             /\ exc' = st.exc
             /\ isbn' = IF st.ia.isbn # E THEN Str(st.ia.isbn) ELSE Null
             /\ titulo' = st.ia.titulo
             /\ autor' = st.ia.autor
    /\ calls' = Append(calls, Call("vision", E, E, E, NoResp))
    /\ UNCHANGED <<entry, client, arg, isbn_clean, gb, ret>>

\* lines 161-178
Merge ==
    /\ pc = "merge"
    /\ ret' = Ret(TRUE, Combinar(gb, ia), NoError)
    /\ pc' = "done"
    /\ UNCHANGED <<entry, client, arg, isbn, titulo, autor, isbn_clean, gb, ia,
                   calls, exc>>

\* the handler were it to return what the extraction holds, with no error
Catch_partial ==
    /\ pc = "catch"
    /\ ret' = Ret(TRUE, Combinar(NoneGb, ia), NoError)
    /\ pc' = "done"
    /\ UNCHANGED <<entry, client, arg, isbn, titulo, autor, isbn_clean, gb, ia,
                   calls, exc>>

\* lines 180-181
Catch ==
    /\ pc = "catch"
    /\ ret' = Ret(FALSE, NoRec, Error("Error al consultar la IA"))
    /\ pc' = "done"
    /\ UNCHANGED <<entry, client, arg, isbn, titulo, autor, isbn_clean, gb, ia,
                   calls, exc>>

----------------------------------------------------------------------------
(* The specifications: one per entry point *)

Init == pc = "start" /\ Idle(Identificar)

Next == NoClient \/ VisionExtract \/ IsbnTier \/ TextTier \/ Merge \/ Catch

Spec == Init /\ [][Next]_vars

InitResolve ==
    /\ pc = "isbn_tier"
    /\ entry = Buscar
    /\ client \in BOOLEAN
    /\ arg = NoArg
    /\ isbn \in ResolveIsbns
    /\ titulo \in {E, <<"D">>}
    /\ autor \in {E, <<"G">>}
    /\ isbn_clean = E
    /\ gb = NoneGb
    /\ ia = NoIa
    /\ calls = << >>
    /\ exc = ""
    /\ ret = NoRet

NextResolve == IsbnTier \/ TextTier

SpecResolve == InitResolve /\ [][NextResolve]_vars

InitParse ==
    /\ pc = "call"
    /\ entry = "_parse_volume"
    /\ client = TRUE
    /\ arg \in ParseArgs
    /\ isbn = Null
    /\ titulo = E
    /\ autor = E
    /\ isbn_clean = E
    /\ gb = NoneGb
    /\ ia = NoIa
    /\ calls = << >>
    /\ exc = ""
    /\ ret = NoRet

NextParse == ParseVolume

SpecParse == InitParse /\ [][NextParse]_vars

InitNorm ==
    /\ pc = "call"
    /\ entry = "limpiar_isbn"
    /\ client = TRUE
    /\ arg \in NormInputs
    /\ isbn = Null
    /\ titulo = E
    /\ autor = E
    /\ isbn_clean = E
    /\ gb = NoneGb
    /\ ia = NoIa
    /\ calls = << >>
    /\ exc = ""
    /\ ret = NoRet

NextNorm == LimpiarIsbn

SpecNorm == InitNorm /\ [][NextNorm]_vars

----------------------------------------------------------------------------
(* Properties *)

CatalogCalls == {i \in DOMAIN calls : calls[i].kind \in {"isbn", "text"}}

Kinds == [i \in DOMAIN calls |-> calls[i].kind]

\* the empty string, or 10 or 13 characters drawn from the digits and X
ValidId(s) ==
    \/ s = E
    \/ /\ Len(s) \in {ISBN10_LEN, ISBN13_LEN}
       /\ \A i \in DOMAIN s : s[i] \in Digit \cup {"X"}

\* C1: once the extraction has succeeded, the orchestrator returns a record
\* and no error whatever the catalog lookups come to, a transport failure of
\* a catalog call included.
C1_CatalogFailureNeverAnError ==
    (pc = "done" /\ ia.some) => (ret.some /\ ~ret.error.some)

\* C2: when the extraction stage fails (no credential, the vision call
\* raises, the payload does not parse) no catalog lookup is ever issued and
\* the orchestrator returns no record and an error.
C2_ExtractionFailure ==
    ~ia.some =>
        /\ CatalogCalls = {}
        /\ pc \notin {"isbn_tier", "text_tier", "merge"}
        /\ pc = "done" => (~ret.some /\ ret.error.some)

C2_Witness ==
    /\ pc = "done"
    /\ client
    /\ ~ia.some
    /\ Kinds = <<"vision">>
    /\ ret.error.some

\* C3: every identifier past the normalisation stage (the key of the
\* identifier-tier lookup, the identifier of the candidate the resolver
\* returns, the identifier of the final record) is empty or 10 or 13
\* characters of digits and X.
C3_IdentifierInvariant ==
    /\ \A i \in DOMAIN calls : calls[i].kind = "isbn" => ValidId(calls[i].isbn)
    /\ gb.some => ValidId(gb.isbn)
    /\ ret.some => ValidId(ret.rec.isbn)

\* C4: the final record takes, field by field, the candidate's value when
\* there is a candidate and the value is non-empty (non-zero for the year)
\* and the extraction's value otherwise; with no candidate it is the
\* extraction, with a candidate full in every field it is the candidate.
C4_MergePolicy ==
    (pc = "done" /\ ret.some) =>
        LET r == ret.rec
        IN  /\ r.isbn = IF gb.some /\ gb.isbn # E THEN gb.isbn ELSE ia.isbn
            /\ r.titulo = IF gb.some /\ gb.titulo # E THEN gb.titulo ELSE ia.titulo
            /\ r.autor = IF gb.some /\ gb.autor # E THEN gb.autor ELSE ia.autor
            /\ r.editorial =
                   IF gb.some /\ gb.editorial # E THEN gb.editorial ELSE ia.editorial
            /\ r.anio = IF gb.some /\ gb.anio # 0 THEN gb.anio
                        ELSE IF ia.anio # 0 THEN ia.anio ELSE 0
            /\ ~gb.some => r = [f \in DOMAIN r |-> ia[f]]
            /\ (/\ gb.some
                /\ gb.isbn # E
                /\ gb.titulo # E
                /\ gb.autor # E
                /\ gb.anio # 0
                /\ gb.editorial # E) => r = [f \in DOMAIN r |-> gb[f]]

C4_Witness ==
    /\ pc = "done"
    /\ ret.some
    /\ gb.some
    /\ gb.editorial = E
    /\ ia.editorial # E
    /\ gb.isbn # E
    /\ ia.isbn # E
    /\ gb.isbn # ia.isbn
    /\ ret.rec.isbn = gb.isbn
    /\ ret.rec.editorial = ia.editorial

ParseIds == arg.vol.industryIdentifiers

Is13(i) == ParseIds[i].type = "ISBN_13" /\ ParseIds[i].identifier # E

Is10(i) == ParseIds[i].type = "ISBN_10" /\ ParseIds[i].identifier # E

Has13 == \E i \in DOMAIN ParseIds : Is13(i)

Has10 == \E i \in DOMAIN ParseIds : Is10(i)

First13 == CHOOSE i \in DOMAIN ParseIds : Is13(i) /\ \A j \in 1..(i - 1) : ~Is13(j)

First10 == CHOOSE i \in DOMAIN ParseIds : Is10(i) /\ \A j \in 1..(i - 1) : ~Is10(j)

Last10 ==
    CHOOSE i \in DOMAIN ParseIds : Is10(i) /\ \A j \in (i + 1)..Len(ParseIds) : ~Is10(j)

\* C5: when the identifier list of an item holds a non-empty ISBN_13 entry
\* and a non-empty ISBN_10 entry, the parsed identifier is the ISBN_13
\* entry's value (the first such entry's), in whatever order they come.
C5_Prefers13 ==
    (pc = "done" /\ Has13 /\ Has10) => gb.isbn = ParseIds[First13].identifier

C5_Witness ==
    /\ pc = "done"
    /\ Has13
    /\ Has10
    /\ \E i \in DOMAIN ParseIds : Is10(i) /\ i > First13
    /\ \E i \in DOMAIN ParseIds :
         Is10(i) /\ ParseIds[i].identifier # ParseIds[First13].identifier
    /\ gb.isbn = ParseIds[First13].identifier

\* upper-case, then drop every character but the digits and X
RECURSIVE Cleaned(_)
Cleaned(s) ==
    IF s = E THEN E
    ELSE (IF UpperChar(Head(s)) \in Digit \cup {"X"}
          THEN <<UpperChar(Head(s))>>
          ELSE E) \o Cleaned(Tail(s))

\* C6: limpiar_isbn of a string (or null) never raises; it returns the empty
\* string when the input is empty or null or when its cleaned form is not 10
\* or 13 characters long, and the cleaned form otherwise.
C6_Normalize ==
    (pc # "call" /\ arg.t \in {"str", "null"}) =>
        /\ pc = "done"
        /\ isbn_clean =
               IF \/ arg.t = "null"
                  \/ arg.s = E
                  \/ Len(Cleaned(arg.s)) \notin {ISBN10_LEN, ISBN13_LEN}
               THEN E
               ELSE Cleaned(arg.s)

C6_Witness ==
    /\ pc = "done"
    /\ arg.t = "str"
    /\ \E i \in DOMAIN arg.s : arg.s[i] = "x"
    /\ \E i \in DOMAIN arg.s : arg.s[i] = "-"
    /\ Len(isbn_clean) = ISBN13_LEN
    /\ isbn_clean # arg.s

\* the first result item has an empty title and an empty author
NamelessFirst(resp) ==
    /\ resp.kind = "ok"
    /\ resp.items # << >>
    /\ resp.items[1].title = E
    /\ JoinAuthors(resp.items[1].authors) = E

\* C7: a candidate the resolver returns has a non-empty title or author; a
\* first item with neither is never returned, and in the identifier tier it
\* makes the resolver go on to the text tier (which looks up when it has a
\* title or author hint) instead of returning null at once.
C7_DiscardRule ==
    /\ gb.some => (gb.titulo # E \/ gb.autor # E)
    /\ (pc = "done" /\ gb.some) => ~NamelessFirst(calls[Len(calls)].resp)
    /\ (Len(calls) = 1 /\ calls[1].kind = "isbn" /\ NamelessFirst(calls[1].resp)) =>
           \/ pc = "text_tier"
           \/ titulo = E /\ autor = E /\ pc = "done" /\ ~gb.some

C7_Witness ==
    /\ pc = "done"
    /\ gb.some
    /\ Len(calls) = 2
    /\ calls[1].kind = "isbn"
    /\ NamelessFirst(calls[1].resp)
    /\ calls[1].resp.items[1].publisher # E
    /\ calls[1].resp.items[1].industryIdentifiers # << >>
    /\ calls[2].kind = "text"

\* C8: with an identifier hint that is empty or normalises to empty and
\* with neither a title nor an author hint, the resolver returns null,
\* raises nothing and issues no lookup.
C8_NoQueryPossible ==
    (/\ isbn.t \in {"str", "null"}
     /\ limpiar_isbn(isbn) = E
     /\ titulo = E
     /\ autor = E) =>
        /\ calls = << >>
        /\ pc # "raised"
        /\ ~gb.some
        /\ pc \in {"isbn_tier", "text_tier", "done"}

C8_Witness ==
    /\ pc = "done"
    /\ isbn = Str(IsbnBad)
    /\ titulo = E
    /\ autor = E
    /\ calls = << >>
    /\ ~gb.some

\* the calls of one invocation come in the order vision, identifier lookup,
\* text lookup, each at most once and the vision call exactly once
OrderOK ==
    Kinds \in {<<"vision">>, <<"vision", "isbn">>, <<"vision", "text">>,
               <<"vision", "isbn", "text">>}

\* the identifier lookup is keyed by the non-empty normalised identifier
IdKeyOK ==
    \A i \in DOMAIN calls :
        calls[i].kind = "isbn" => (ia.isbn # E /\ calls[i].isbn = ia.isbn)

\* no call follows an identifier lookup whose first item is accepted
ShortCircuit ==
    \A i \in DOMAIN calls :
        (/\ calls[i].kind = "isbn"
         /\ calls[i].resp.kind = "ok"
         /\ calls[i].resp.items # << >>
         /\ LET g == _parse_volume(calls[i].resp.items[1], calls[i].isbn)
            IN  g.titulo # E \/ g.autor # E) => i = Len(calls)

\* C9 as claimed: every invocation makes exactly one vision call, first,
\* then at most one identifier lookup and at most one text lookup in that
\* order; the identifier lookup only with a non-empty normalised
\* identifier, the text lookup never after the identifier tier accepted.
C9_ExactlyOneVisionCall ==
    pc = "done" => (OrderOK /\ IdKeyOK /\ ShortCircuit)

\* C9 amended: the same of every invocation that has a vision credential;
\* without one the invocation makes no call at all.
C9_CallOrdering ==
    /\ (pc # "start" /\ client) => (OrderOK /\ IdKeyOK /\ ShortCircuit)
    /\ (pc = "start" \/ ~client) => calls = << >>

C9_Witness ==
    /\ pc = "done"
    /\ Kinds = <<"vision", "isbn", "text">>
    /\ ret.some

\* C10 as claimed: with several non-empty ISBN_10 entries and no ISBN_13
\* entry the parsed identifier is the first ISBN_10 value.
C10_FirstTenKept ==
    (pc = "done" /\ ~Has13 /\ Has10) => gb.isbn = ParseIds[First10].identifier

\* C10 amended: each non-empty ISBN_10 value replaces the one kept so far,
\* so with no ISBN_13 entry the parsed identifier is the last ISBN_10 value;
\* a non-empty ISBN_13 value replaces it and ends the scan; with neither
\* kind the fallback stays.
C10_LastTenKept ==
    pc = "done" =>
        gb.isbn = IF Has13 THEN ParseIds[First13].identifier
                  ELSE IF Has10 THEN ParseIds[Last10].identifier
                  ELSE arg.isbn_fallback

C10_Witness ==
    /\ pc = "done"
    /\ ~Has13
    /\ Has10
    /\ First10 # Last10
    /\ ParseIds[First10].identifier # ParseIds[Last10].identifier
    /\ gb.isbn = ParseIds[Last10].identifier

=============================================================================
